---------------------------- MODULE Spec2Model ----------------------------
(***************************************************************************)
(* Model of the outline cache and derived views of the Workflowy MCP       *)
(* server (src/src/index.ts, class WorkflowyClient).                       *)
(*                                                                         *)
(* The specifications share the variables:                                 *)
(*   Spec          the cache entry under interleaved requests: every       *)
(*                 method is split at its await on the HTTP call;          *)
(*   SpecExport    Spec with the requests of the workflowy_export tool;    *)
(*   SpecSearch    searchNodes as a function of the snapshot it reads;     *)
(*   SpecHierarchy getNodeWithChildren, call by recursive call, over the   *)
(*                 snapshots its getAllNodes calls return.                 *)
(***************************************************************************)
EXTENDS Integers, Sequences, FiniteSets, TLC

(***************************************************************************)
(* Bounds of the model.                                                    *)
(***************************************************************************)
MaxInFlight == 2        \* requests that may be suspended at an await at once
MaxClock == 2           \* last value of Date.now() the model reaches
MaxTTL == 1             \* largest configured freshness window (clock ticks)
MaxCalls == 2           \* GET /nodes-export calls issued by the cache
MaxWrites == 1          \* mutation operations started

(***************************************************************************)
(* JavaScript values.  An optional number is <<>> (null / undefined) or    *)
(* <<n>>; Truthy is JavaScript's coercion of such a value to a boolean.    *)
(***************************************************************************)
None == <<>>
Some(x) == <<x>>
Truthy(opt) == opt # None /\ opt[1] # 0

\* data: null (line 38)
Null == "null"
\* response.data.nodes missing from the export payload (line 61)
Undefined == "undefined"
\* the array literal [] of line 61
EmptyArray == "[]"

Clients == 1..MaxInFlight

\* Node arrays an export response may carry (opaque here; Spec does not
\* look inside a snapshot).
Snapshots == {"S1", "S2"}
\* response.data.nodes of a 200 response
Payloads == Snapshots \cup {Undefined}
\* error.response.data?.retry_after of a 429 response
Hints == {None, Some(0), Some(30)}

\* what the export call rejects with, other than a 429: a response with
\* another status, or no response at all
Errors == {"status500", "noResponse"}

MutationKinds ==
    {"createNode", "updateNode", "deleteNode", "moveNode", "completeNode",
     "uncompleteNode"}
Callers == {"getAllNodes", "searchNodes", "getNodeWithChildren"}

VARIABLES
    nodeCache,      \* this.nodeCache: [data, timestamp, ttl]
    clock,          \* Date.now()
    req,            \* per request slot: where the async method is suspended
    exportCalls,    \* GET /nodes-export calls issued by getAllNodes
    writesStarted,  \* mutation operations whose adapter call was issued
    writesOK,       \* mutation operations that returned successfully
    invalidations,  \* calls of invalidateCache
    ev,             \* the last step: which operation, and what it returned
                    \* or threw to its caller
    afterWrite,     \* a mutation returned and no read was issued since
    runFirst,       \* data returned by the first read of the current run of
                    \* fresh, unforced reads ("none": no such read yet)
    origin,         \* when the export calls were issued: that of each
                    \* suspended read and that which filled the entry
    toolExports,    \* GET /nodes-export calls issued by exportNodes
    sNodes, sQuery, sOptions, sResult,          \* SpecSearch
    hReads, hNodeId, hDepth, hStack, hResult,   \* SpecHierarchy
    hArgs,          \* SpecTool: arguments of a workflowy_get_node_hierarchy
                    \* request
    mem             \* SpecHeap: the objects of the process, by address

cacheVars ==
    <<nodeCache, clock, req, exportCalls, writesStarted, writesOK,
      invalidations, ev, afterWrite, runFirst, origin, toolExports>>
searchVars == <<sNodes, sQuery, sOptions, sResult>>
hierVars == <<hReads, hNodeId, hDepth, hStack, hResult, hArgs>>
heapVars == <<mem>>
vars == <<cacheVars, searchVars, hierVars, heapVars>>

\* The value of a variable the specification at hand does not use.
Unused == <<>>

(***************************************************************************)
(* The cache entry (lines 15-19, 37-41).                                   *)
(***************************************************************************)
\* line 49: timestamp ? now - timestamp : Infinity  (None is Infinity)
CacheAge(cache, now) ==
    IF Truthy(cache.timestamp) THEN Some(now - cache.timestamp[1]) ELSE None

\* An entry still served when its age equals the window.
UseCacheAtBoundary(cache, cacheAge, forceRefresh) ==
    /\ cache.data # Null
    /\ cacheAge # None
    /\ cacheAge[1] <= cache.ttl
    /\ ~forceRefresh

\* An entry served whatever its age.
UseCacheIgnoresAge(cache, cacheAge, forceRefresh) ==
    /\ cache.data # Null
    /\ ~forceRefresh

\* line 52: data && cacheAge < ttl && !forceRefresh
UseCache(cache, cacheAge, forceRefresh) ==
    /\ cache.data # Null
    /\ cacheAge # None
    /\ cacheAge[1] < cache.ttl
    /\ ~forceRefresh

\* line 61: response.data.nodes || []
NodesOf(payload) == IF payload = Undefined THEN EmptyArray ELSE payload

\* A fetch that stores the data and leaves the timestamp alone.
StoreFetchedDataOnly(cache, nodes, now) ==
    [cache EXCEPT !.data = nodes]

\* lines 62-63: the entry after a successful fetch started at `now`
StoreFetched(cache, nodes, now) ==
    [cache EXCEPT !.data = nodes, !.timestamp = Some(now)]

\* line 69: error.response.data?.retry_after || 60
RetryAfter(hint) == IF Truthy(hint) THEN hint[1] ELSE 60

\* invalidateCache that forgets line 91.
InvalidateCacheKeepsTimestamp(cache) ==
    [cache EXCEPT !.data = Null]

\* lines 86-92
InvalidateCache(cache) ==
    [cache EXCEPT !.data = Null, !.timestamp = None]

(***************************************************************************)
(* Observation of a step: the operation that took it and its outcome.      *)
(***************************************************************************)
Idle == [pc |-> "idle", now |-> 0, force |-> FALSE, op |-> "none"]

NoEvent ==
    [op |-> "none", c |-> 0, caller |-> "none", force |-> FALSE,
     kind |-> "none", data |-> Null, retryAfter |-> None, hint |-> None,
     hadData |-> FALSE, upstream |-> "none", thrown |-> "none"]

\* hadData: the entry held a snapshot when the step was taken.
Event(op, c) ==
    [NoEvent EXCEPT !.op = op, !.c = c, !.hadData = (nodeCache.data # Null)]

\* History of an export call: how many mutation operations had returned when
\* it was issued, and whether the read that issued it was the first one
\* after a mutation returned.
NoCall == [writes |-> 0, first |-> FALSE]
NoOrigin == [entry |-> 0, call |-> [c \in Clients |-> NoCall]]

\* A request takes the lowest free slot (slots are interchangeable).
FreeSlot(c) ==
    /\ req[c].pc = "idle"
    /\ \A d \in Clients : d < c => req[d].pc # "idle"

(***************************************************************************)
(* getAllNodes (lines 47-83), split at the await of line 60.               *)
(***************************************************************************)
\* The 429 branch restarting the freshness window when it serves stale data.
OnRateLimitedRefreshes(cache, hint, now) ==
    IF cache.data # Null
    THEN [cache |-> [cache EXCEPT !.timestamp = Some(now)], kind |-> "ok",
          data |-> cache.data, retryAfter |-> None]
    ELSE [cache |-> cache, kind |-> "rateLimited", data |-> Null,
          retryAfter |-> Some(RetryAfter(hint))]

\* lines 66-82, the 429 branch: what the call returns or throws.  The entry
\* is not written.
OnRateLimited(cache, hint, now) ==
    IF cache.data # Null
    THEN [cache |-> cache, kind |-> "ok", data |-> cache.data,
          retryAfter |-> None]
    ELSE [cache |-> cache, kind |-> "rateLimited", data |-> Null,
          retryAfter |-> Some(RetryAfter(hint))]

\* lines 47-60: up to the return of line 54 or the await of line 60.
\* searchNodes (line 111) and getNodeWithChildren (line 131) call
\* getAllNodes() with forceRefresh left at its default.
GetAllNodes(c, forceRefresh, caller) ==
    /\ FreeSlot(c)
    /\ forceRefresh => caller = "getAllNodes"
    /\ LET now == clock
           cacheAge == CacheAge(nodeCache, now)
           e == [Event("GetAllNodes", c) EXCEPT
                    !.caller = caller, !.force = forceRefresh]
       IN IF UseCache(nodeCache, cacheAge, forceRefresh)
          THEN /\ ev' = [e EXCEPT !.kind = "ok", !.data = nodeCache.data]
               /\ runFirst' = IF runFirst = "none" THEN nodeCache.data
                              ELSE runFirst
               /\ UNCHANGED <<req, exportCalls, origin>>
          ELSE /\ exportCalls < MaxCalls
               /\ exportCalls' = exportCalls + 1
               /\ req' = [req EXCEPT ![c] =
                             [pc |-> "fetching", now |-> now,
                              force |-> forceRefresh, op |-> "none"]]
               /\ ev' = [e EXCEPT !.kind = "pending"]
               /\ runFirst' = "none"
               /\ origin' = [origin EXCEPT !.call[c] =
                                [writes |-> writesOK, first |-> afterWrite]]
    /\ afterWrite' = FALSE
    /\ UNCHANGED <<nodeCache, clock, writesStarted, writesOK, invalidations>>

\* lines 60-65: the export call answered 200.
FetchOK(c, payload) ==
    /\ req[c].pc = "fetching"
    /\ LET nodes == NodesOf(payload)
       IN /\ nodeCache' = StoreFetched(nodeCache, nodes, req[c].now)
          /\ ev' = [Event("FetchOK", c) EXCEPT
                       !.force = req[c].force, !.kind = "ok", !.data = nodes]
    /\ req' = [req EXCEPT ![c] = Idle]
    /\ runFirst' = IF req[c].force THEN "none" ELSE runFirst
    /\ origin' = [origin EXCEPT !.entry = origin.call[c].writes,
                                !.call[c] = NoCall]
    /\ UNCHANGED <<clock, exportCalls, writesStarted, writesOK,
                   invalidations, afterWrite>>

\* lines 66-80: the export call answered 429.
FetchRateLimited(c, hint) ==
    /\ req[c].pc = "fetching"
    /\ LET r == OnRateLimited(nodeCache, hint, req[c].now)
       IN /\ nodeCache' = r.cache
          /\ ev' = [Event("FetchRateLimited", c) EXCEPT
                       !.force = req[c].force, !.kind = r.kind,
                       !.data = r.data, !.retryAfter = r.retryAfter,
                       !.hint = hint]
    /\ req' = [req EXCEPT ![c] = Idle]
    /\ runFirst' = IF req[c].force THEN "none" ELSE runFirst
    /\ origin' = [origin EXCEPT !.call[c] = NoCall]
    /\ UNCHANGED <<clock, exportCalls, writesStarted, writesOK,
                   invalidations, afterWrite>>

\* A catch block that falls back on the entry for every failure.
FetchErrorServesStale(c, error) ==
    /\ req[c].pc = "fetching"
    /\ ev' = IF nodeCache.data # Null
             THEN [Event("FetchError", c) EXCEPT
                      !.force = req[c].force, !.kind = "ok",
                      !.data = nodeCache.data, !.upstream = error]
             ELSE [Event("FetchError", c) EXCEPT
                      !.force = req[c].force, !.kind = "error",
                      !.upstream = error, !.thrown = error]
    /\ req' = [req EXCEPT ![c] = Idle]
    /\ runFirst' = IF req[c].force THEN "none" ELSE runFirst
    /\ origin' = [origin EXCEPT !.call[c] = NoCall]
    /\ UNCHANGED <<nodeCache, clock, exportCalls, writesStarted, writesOK,
                   invalidations, afterWrite>>

\* line 81: any other failure of the export call is rethrown.
FetchError(c, error) ==
    /\ req[c].pc = "fetching"
    /\ ev' = [Event("FetchError", c) EXCEPT
                 !.force = req[c].force, !.kind = "error",
                 !.upstream = error, !.thrown = error]
    /\ req' = [req EXCEPT ![c] = Idle]
    /\ runFirst' = IF req[c].force THEN "none" ELSE runFirst
    /\ origin' = [origin EXCEPT !.call[c] = NoCall]
    /\ UNCHANGED <<nodeCache, clock, exportCalls, writesStarted, writesOK,
                   invalidations, afterWrite>>

(***************************************************************************)
(* The six mutation operations (lines 159-180, 194-244), each split at     *)
(* its await on the adapter call.  What follows the await is the same two  *)
(* statements in all six.                                                  *)
(***************************************************************************)
\* lines 177, 212, 218, 229, 235, 241: the adapter call is issued.
MutationStart(c, kind) ==
    /\ FreeSlot(c)
    /\ writesStarted < MaxWrites
    /\ writesStarted' = writesStarted + 1
    /\ req' = [req EXCEPT ![c] =
                  [pc |-> "mutating", now |-> 0, force |-> FALSE,
                   op |-> kind]]
    /\ ev' = [Event("MutationStart", c) EXCEPT
                 !.caller = kind, !.kind = "pending"]
    /\ UNCHANGED <<nodeCache, clock, exportCalls, writesOK, invalidations,
                   afterWrite, runFirst, origin>>

\* lines 178-179, 213-214, 219-220, 230-231, 236-237, 242-243: the adapter
\* call succeeded; invalidateCache runs and the response is returned.
MutationOK(c) ==
    /\ req[c].pc = "mutating"
    /\ nodeCache' = InvalidateCache(nodeCache)
    /\ invalidations' = invalidations + 1
    /\ writesOK' = writesOK + 1
    /\ ev' = [Event("MutationOK", c) EXCEPT
                 !.caller = req[c].op, !.kind = "ok"]
    /\ req' = [req EXCEPT ![c] = Idle]
    /\ afterWrite' = TRUE
    /\ runFirst' = "none"
    /\ origin' = [origin EXCEPT !.entry = 0]
    /\ UNCHANGED <<clock, exportCalls, writesStarted>>

\* A mutation that invalidates in a finally block, whatever the outcome.
MutationFailInvalidates(c) ==
    /\ req[c].pc = "mutating"
    /\ nodeCache' = InvalidateCache(nodeCache)
    /\ invalidations' = invalidations + 1
    /\ ev' = [Event("MutationFail", c) EXCEPT
                 !.caller = req[c].op, !.kind = "error"]
    /\ req' = [req EXCEPT ![c] = Idle]
    /\ origin' = [origin EXCEPT !.entry = 0]
    /\ UNCHANGED <<clock, exportCalls, writesStarted, writesOK, afterWrite,
                   runFirst>>

\* the adapter call threw: the await rethrows and the rest of the method is
\* skipped.
MutationFail(c) ==
    /\ req[c].pc = "mutating"
    /\ ev' = [Event("MutationFail", c) EXCEPT
                 !.caller = req[c].op, !.kind = "error"]
    /\ req' = [req EXCEPT ![c] = Idle]
    /\ UNCHANGED <<nodeCache, clock, exportCalls, writesStarted, writesOK,
                   invalidations, afterWrite, runFirst, origin>>

\* Date.now() advances.
Tick ==
    /\ clock < MaxClock
    /\ clock' = clock + 1
    /\ ev' = [NoEvent EXCEPT !.op = "Tick"]
    /\ UNCHANGED <<nodeCache, req, exportCalls, writesStarted, writesOK,
                   invalidations, afterWrite, runFirst, origin>>

\* lines 21-44: the constructor.  ttl is WORKFLOWY_CACHE_TTL, scaled to
\* clock ticks.
Init ==
    /\ nodeCache \in [data : {Null}, timestamp : {None}, ttl : 0..MaxTTL]
    /\ clock = 1
    /\ req = [c \in Clients |-> Idle]
    /\ exportCalls = 0
    /\ writesStarted = 0
    /\ writesOK = 0
    /\ invalidations = 0
    /\ ev = NoEvent
    /\ afterWrite = FALSE
    /\ runFirst = "none"
    /\ origin = NoOrigin
    /\ toolExports = 0
    /\ sNodes = Unused /\ sQuery = Unused /\ sOptions = Unused
    /\ sResult = Unused
    /\ hReads = Unused /\ hNodeId = Unused /\ hDepth = Unused
    /\ hStack = Unused /\ hResult = Unused /\ hArgs = Unused
    /\ mem = Unused

Next ==
    \/ \E c \in Clients, f \in BOOLEAN, caller \in Callers :
          GetAllNodes(c, f, caller)
          /\ UNCHANGED <<toolExports, searchVars, hierVars, heapVars>>
    \/ \E c \in Clients, p \in Payloads :
          FetchOK(c, p)
          /\ UNCHANGED <<toolExports, searchVars, hierVars, heapVars>>
    \/ \E c \in Clients, h \in Hints :
          FetchRateLimited(c, h)
          /\ UNCHANGED <<toolExports, searchVars, hierVars, heapVars>>
    \/ \E c \in Clients, e \in Errors :
          FetchError(c, e)
          /\ UNCHANGED <<toolExports, searchVars, hierVars, heapVars>>
    \/ \E c \in Clients, k \in MutationKinds :
          MutationStart(c, k)
          /\ UNCHANGED <<toolExports, searchVars, hierVars, heapVars>>
    \/ \E c \in Clients : MutationOK(c)
          /\ UNCHANGED <<toolExports, searchVars, hierVars, heapVars>>
    \/ \E c \in Clients : MutationFail(c)
          /\ UNCHANGED <<toolExports, searchVars, hierVars, heapVars>>
    \/ Tick /\ UNCHANGED <<toolExports, searchVars, hierVars, heapVars>>

Spec == Init /\ [][Next]_vars

(***************************************************************************)
(* exportNodes (lines 246-249) behind the workflowy_export tool (lines     *)
(* 672-682), split at its await, among the requests of Spec.               *)
(***************************************************************************)
MaxExports == 1         \* workflowy_export requests issued

\* what the export call of exportNodes rejects with
ExportErrors == {"status429"} \cup Errors

\* line 247, up to the await: the call is issued, whatever the entry holds.
ExportNodes(c) ==
    /\ FreeSlot(c)
    /\ toolExports < MaxExports
    /\ toolExports' = toolExports + 1
    /\ req' = [req EXCEPT ![c] =
                  [pc |-> "exporting", now |-> 0, force |-> FALSE,
                   op |-> "exportNodes"]]
    /\ ev' = [Event("ExportNodes", c) EXCEPT
                 !.caller = "exportNodes", !.kind = "pending"]
    /\ UNCHANGED <<nodeCache, clock, exportCalls, writesStarted, writesOK,
                   invalidations, afterWrite, runFirst, origin>>

\* lines 247-248 and 674-681: the call answered 200 and response.data is
\* returned to the tool's caller (payload is its nodes field).
ExportOK(c, payload) ==
    /\ req[c].pc = "exporting"
    /\ ev' = [Event("ExportOK", c) EXCEPT
                 !.caller = "exportNodes", !.kind = "ok", !.data = payload]
    /\ req' = [req EXCEPT ![c] = Idle]
    /\ UNCHANGED <<nodeCache, clock, exportCalls, writesStarted, writesOK,
                   invalidations, afterWrite, runFirst, origin, toolExports>>

\* An export tool that falls back on the entry as getAllNodes does.
ExportFailServesStale(c, error) ==
    /\ req[c].pc = "exporting"
    /\ ev' = IF error = "status429" /\ nodeCache.data # Null
             THEN [Event("ExportFail", c) EXCEPT
                      !.caller = "exportNodes", !.kind = "ok",
                      !.data = nodeCache.data, !.upstream = error]
             ELSE [Event("ExportFail", c) EXCEPT
                      !.caller = "exportNodes", !.kind = "error",
                      !.upstream = error, !.thrown = error]
    /\ req' = [req EXCEPT ![c] = Idle]
    /\ UNCHANGED <<nodeCache, clock, exportCalls, writesStarted, writesOK,
                   invalidations, afterWrite, runFirst, origin, toolExports>>

\* line 247 with no try around it, and lines 699-711: the call failed, the
\* await rethrows, and the handler turns the failure into an error result.
ExportFail(c, error) ==
    /\ req[c].pc = "exporting"
    /\ ev' = [Event("ExportFail", c) EXCEPT
                 !.caller = "exportNodes", !.kind = "error",
                 !.upstream = error, !.thrown = error]
    /\ req' = [req EXCEPT ![c] = Idle]
    /\ UNCHANGED <<nodeCache, clock, exportCalls, writesStarted, writesOK,
                   invalidations, afterWrite, runFirst, origin, toolExports>>

NextExport ==
    \/ Next
    \/ \E c \in Clients :
          ExportNodes(c) /\ UNCHANGED <<searchVars, hierVars, heapVars>>
    \/ \E c \in Clients, p \in Payloads :
          ExportOK(c, p) /\ UNCHANGED <<searchVars, hierVars, heapVars>>
    \/ \E c \in Clients, e \in ExportErrors :
          ExportFail(c, e) /\ UNCHANGED <<searchVars, hierVars, heapVars>>

SpecExport == Init /\ [][NextExport]_vars


(***************************************************************************)
(* searchNodes (lines 95-127) as a function of the array getAllNodes       *)
(* returned.  A string is the sequence of its characters.                  *)
(***************************************************************************)
MaxSearchNodes == 2     \* nodes of a generated snapshot

UpperCase ==
    <<"A", "B", "C", "D", "E", "F", "G", "H", "I", "J", "K", "L", "M", "N",
      "O", "P", "Q", "R", "S", "T", "U", "V", "W", "X", "Y", "Z">>
LowerCase ==
    <<"a", "b", "c", "d", "e", "f", "g", "h", "i", "j", "k", "l", "m", "n",
      "o", "p", "q", "r", "s", "t", "u", "v", "w", "x", "y", "z">>

\* String.prototype.toLowerCase (lines 112, 116, 120)
ToLowerCase(str) ==
    [i \in 1..Len(str) |->
        IF \E k \in 1..Len(UpperCase) : UpperCase[k] = str[i]
        THEN LowerCase[CHOOSE k \in 1..Len(UpperCase) : UpperCase[k] = str[i]]
        ELSE str[i]]

\* String.prototype.includes (lines 117, 121)
Includes(str, sub) ==
    \E i \in 1..(Len(str) - Len(sub) + 1) :
        SubSeq(str, i, i + Len(sub) - 1) = sub

\* Array.prototype.slice(0, end) (line 126)
Slice(arr, end) ==
    LET e == IF end < 0
             THEN (IF Len(arr) + end < 0 THEN 0 ELSE Len(arr) + end)
             ELSE (IF end > Len(arr) THEN Len(arr) ELSE end)
    IN SubSeq(arr, 1, e)

\* a destructuring default (lines 104-109): used when the option is undefined
Default(opt, d) == IF opt = None THEN d ELSE opt[1]

\* lines 108: maxResults = 100
DefaultMaxResults == 100

\* lines 115-123: the filter callback.  node.name is a string, node.note a
\* string or absent; the empty string is falsy.
NodeMatches(node, searchQuery, searchName, searchNote, caseSensitive) ==
    \/ /\ searchName
       /\ node.name # <<>>
       /\ Includes(IF caseSensitive THEN node.name ELSE ToLowerCase(node.name),
                   searchQuery)
    \/ /\ searchNote
       /\ node.note # None
       /\ node.note[1] # <<>>
       /\ Includes(IF caseSensitive THEN node.note[1]
                   ELSE ToLowerCase(node.note[1]), searchQuery)

\* lines 104-126, after getAllNodes has returned allNodes
SearchNodes(allNodes, query, options) ==
    LET searchName == Default(options.searchName, TRUE)
        searchNote == Default(options.searchNote, TRUE)
        caseSensitive == Default(options.caseSensitive, FALSE)
        maxResults == Default(options.maxResults, DefaultMaxResults)
        searchQuery == IF caseSensitive THEN query ELSE ToLowerCase(query)
        Keep(node) ==
            NodeMatches(node, searchQuery, searchName, searchNote,
                        caseSensitive)
        results == SelectSeq(allNodes, Keep)
    IN Slice(results, maxResults)

\* Inputs of SpecSearch.
Node(id, parent, name, note) ==
    [id |-> id, parent_id |-> parent, name |-> name, note |-> note]

SearchNames == {<<>>, <<"a">>, <<"A", "b">>}
SearchNotes == {None, Some(<<>>), Some(<<"b", "A">>)}
SearchQueries == {<<>>, <<"a">>, <<"A">>, <<"b">>}

SearchSnapshots ==
    UNION {{[i \in 1..n |-> Node(i, None, names[i], notes[i])] :
              names \in [1..n -> SearchNames],
              notes \in [1..n -> SearchNotes]} : n \in 0..MaxSearchNodes}

OptionalBoolean == {None, Some(TRUE), Some(FALSE)}
SearchOptions ==
    [searchName : OptionalBoolean, searchNote : OptionalBoolean,
     caseSensitive : OptionalBoolean,
     maxResults : {None} \cup {Some(m) : m \in -1..MaxSearchNodes}]

\* The strings of the search examples.
Rubric == <<"R", "u", "b", "r", "i", "c">>
rubric == <<"r", "u", "b", "r", "i", "c">>
RubricV2 == Rubric \o <<" ", "v", "2">>
SeeRubric == <<"s", "e", "e", " ">> \o rubric
RubricOnly == rubric \o <<" ", "o", "n", "l", "y">>
Other == <<"o", "t", "h", "e", "r">>

ExampleSnapshot ==
    <<Node(1, None, RubricV2, None), Node(2, None, Other, Some(SeeRubric)),
      Node(3, None, RubricOnly, None), Node(4, None, Other, None)>>

\* More matching nodes than the default limit.
LargeSnapshot ==
    [i \in 1..(DefaultMaxResults + 1) |-> Node(i, None, <<"a">>, None)]

NoOptions ==
    [searchName |-> None, searchNote |-> None, caseSensitive |-> None,
     maxResults |-> None]

NotRun == [done |-> FALSE, nodes |-> <<>>]

InitSearch ==
    /\ \/ /\ sNodes \in SearchSnapshots
          /\ sQuery \in SearchQueries
          /\ sOptions \in SearchOptions
       \/ /\ sNodes = ExampleSnapshot
          /\ sQuery \in {rubric, Rubric}
          /\ sOptions \in {[NoOptions EXCEPT !.caseSensitive = cs] :
                             cs \in OptionalBoolean}
       \/ /\ sNodes = LargeSnapshot
          /\ sQuery = <<"a">>
          /\ sOptions = NoOptions
    /\ sResult = NotRun
    /\ nodeCache = [data |-> Null, timestamp |-> None, ttl |-> 0]
    /\ clock = 1
    /\ req = [c \in Clients |-> Idle]
    /\ exportCalls = 0
    /\ writesStarted = 0
    /\ writesOK = 0
    /\ invalidations = 0
    /\ ev = NoEvent
    /\ afterWrite = FALSE
    /\ runFirst = "none"
    /\ origin = NoOrigin
    /\ toolExports = 0
    /\ hReads = Unused /\ hNodeId = Unused /\ hDepth = Unused
    /\ hStack = Unused /\ hResult = Unused /\ hArgs = Unused
    /\ mem = Unused

\* workflowy_search (lines 558-571) calls searchNodes on the snapshot read.
SearchNodesCall ==
    /\ ~sResult.done
    /\ sResult' = [done |-> TRUE,
                   nodes |-> SearchNodes(sNodes, sQuery, sOptions)]
    /\ UNCHANGED <<sNodes, sQuery, sOptions>>

NextSearch == SearchNodesCall /\ UNCHANGED <<cacheVars, hierVars, heapVars>>

SpecSearch == InitSearch /\ [][NextSearch]_vars

(***************************************************************************)
(* getNodeWithChildren (lines 130-157), one step per call, recursive call  *)
(* and return.  hStack holds the activations of the method, the innermost  *)
(* last; the k-th getAllNodes call of the request returns hReads[k] (the   *)
(* last element, once k is past the end).                                  *)
(***************************************************************************)
MaxTreeNodes == 2       \* nodes of a generated snapshot
MaxDepth == 3           \* largest depth asked of a generated snapshot

\* line 390: the largest depth the tool's schema declares
SchemaMaxDepth == 5

ReadAt(reads, k) == reads[IF k > Len(reads) THEN Len(reads) ELSE k]

\* lines 140, 145: { ...node }.  hasChildren tells whether the copy has a
\* children property.
Clone(node) ==
    [id |-> node.id, parent_id |-> node.parent_id, name |-> node.name,
     note |-> node.note, hasChildren |-> FALSE, children |-> <<>>]

\* line 151: Object.assign(target, source); a property the source lacks is
\* kept.
ObjectAssign(target, source) ==
    [id |-> source.id, parent_id |-> source.parent_id, name |-> source.name,
     note |-> IF source.note = None THEN target.note ELSE source.note,
     hasChildren |-> target.hasChildren \/ source.hasChildren,
     children |-> IF source.hasChildren THEN source.children
                  ELSE target.children]

\* Children attached one level deeper than the depth asked for.
AttachesChildrenAtZero(depth) == depth >= 0

\* line 143: if (depth > 0)
AttachesChildren(depth) == depth > 0

\* line 148: if (depth > 1)
ExpandsChildren(depth) == depth > 1

\* The children listed last in the snapshot first.
ChildrenOfReversed(allNodes, nodeId) ==
    LET IsChild(n) == n.parent_id = Some(nodeId)
        children == SelectSeq(allNodes, IsChild)
    IN [i \in 1..Len(children) |-> Clone(children[Len(children) + 1 - i])]

\* lines 144-145: the nodes whose parent_id is nodeId, copied
ChildrenOf(allNodes, nodeId) ==
    LET IsChild(n) == n.parent_id = Some(nodeId)
        children == SelectSeq(allNodes, IsChild)
    IN [i \in 1..Len(children) |-> Clone(children[i])]

NoNode == Clone(Node(0, None, <<>>, None))

\* A lookup that also wants the node's parent to be in the snapshot.
FoundWithParent(allNodes, nodeId) ==
    {i \in 1..Len(allNodes) :
        /\ allNodes[i].id = nodeId
        /\ \/ allNodes[i].parent_id = None
           \/ \E j \in 1..Len(allNodes) :
                 allNodes[i].parent_id = Some(allNodes[j].id)}

\* lines 132-134: nodeMap.get(nodeId), as the positions of the snapshot
\* that carry the id (the Map keeps the last of them).
Found(allNodes, nodeId) ==
    {i \in 1..Len(allNodes) : allNodes[i].id = nodeId}

\* An activation of getNodeWithChildren(nodeId, depth) that has not run yet.
Frame(nodeId, depth) ==
    [nodeId |-> nodeId, depth |-> depth, pc |-> "call", result |-> NoNode,
     i |-> 0]

\* Inputs of SpecHierarchy.  A parent_id may name the node itself, close a
\* cycle, or name no node of the snapshot.
TreeIds == 1..MaxTreeNodes
Dangling == MaxTreeNodes + 1
TreeParents == {None} \cup {Some(i) : i \in TreeIds \cup {Dangling}}

TreeSnapshots ==
    UNION {{[i \in 1..n |-> Node(ids[i], parents[i], <<"n">>, None)] :
              ids \in {f \in [1..n -> TreeIds] :
                          \A i, j \in 1..n : i # j => f[i] # f[j]},
              parents \in [1..n -> TreeParents]} : n \in 0..MaxTreeNodes}

\* root -> {a, b}, a -> {c}, with root = 1, a = 2, b = 3, c = 4; b is
\* listed before c and after a.
ExampleTree ==
    <<Node(1, None, <<"r">>, None), Node(2, Some(1), <<"a">>, None),
      Node(3, Some(1), <<"b">>, None), Node(4, Some(2), <<"c">>, None)>>

\* x.parent == x.id, with x = 1
SelfParent == <<Node(1, Some(1), <<"x">>, None)>>

\* reads: getAllNodes calls the request has made so far.
HNotRun == [done |-> FALSE, ok |-> FALSE, node |-> NoNode, reads |-> 0]

\* getNodeWithChildren(nodeId, depth) has just been called.
InitHierarchy ==
    /\ \/ /\ hReads \in {<<snap>> : snap \in TreeSnapshots}
          /\ hNodeId \in TreeIds \cup {Dangling}
          /\ hDepth \in -1..MaxDepth
       \/ /\ hReads = <<ExampleTree>>
          /\ hNodeId \in 1..4
          /\ hDepth \in 0..MaxDepth
       \/ /\ hReads = <<SelfParent>>
          /\ hNodeId = 1
          /\ hDepth \in 0..SchemaMaxDepth
    /\ hStack = <<Frame(hNodeId, hDepth)>>
    /\ hResult = HNotRun
    /\ hArgs = Unused
    /\ nodeCache = [data |-> Null, timestamp |-> None, ttl |-> 0]
    /\ clock = 1
    /\ req = [c \in Clients |-> Idle]
    /\ exportCalls = 0
    /\ writesStarted = 0
    /\ writesOK = 0
    /\ invalidations = 0
    /\ ev = NoEvent
    /\ afterWrite = FALSE
    /\ runFirst = "none"
    /\ origin = NoOrigin
    /\ toolExports = 0
    /\ sNodes = Unused /\ sQuery = Unused /\ sOptions = Unused
    /\ sResult = Unused
    /\ mem = Unused

\* lines 131-148: the innermost activation reads the snapshot, looks the
\* node up (in a Map, so the last entry of an id wins), copies it and
\* attaches its children.  `Node ... not found` (line 136) is caught nowhere
\* in the method: it ends every activation of the request.
GetNodeWithChildren ==
    /\ hStack # <<>>
    /\ LET top == Len(hStack)
           f == hStack[top]
           allNodes == ReadAt(hReads, hResult.reads + 1)
           found == Found(allNodes, f.nodeId)
           node == allNodes[CHOOSE i \in found : \A j \in found : j <= i]
           children == ChildrenOf(allNodes, f.nodeId)
           result == IF AttachesChildren(f.depth)
                     THEN [Clone(node) EXCEPT !.hasChildren = TRUE,
                                              !.children = children]
                     ELSE Clone(node)
           loops == AttachesChildren(f.depth) /\ ExpandsChildren(f.depth)
       IN /\ f.pc = "call"
          /\ IF found = {}
             THEN /\ hStack' = <<>>
                  /\ hResult' = [done |-> TRUE, ok |-> FALSE, node |-> NoNode,
                                 reads |-> hResult.reads + 1]
             ELSE /\ hStack' = [hStack EXCEPT ![top] =
                                   [f EXCEPT !.pc = "loop", !.result = result,
                                             !.i = IF loops THEN 1
                                                   ELSE Len(result.children) + 1]]
                  /\ hResult' = [hResult EXCEPT !.reads = @ + 1]
    /\ UNCHANGED <<hReads, hNodeId, hDepth, hArgs>>

\* lines 149-150: the loop reaches the i-th child and calls
\* getNodeWithChildren(child.id, depth - 1).
ExpandChild ==
    /\ hStack # <<>>
    /\ LET f == hStack[Len(hStack)]
       IN /\ f.pc = "loop"
          /\ f.i <= Len(f.result.children)
          /\ hStack' = Append(hStack,
                              Frame(f.result.children[f.i].id, f.depth - 1))
    /\ UNCHANGED <<hReads, hNodeId, hDepth, hResult, hArgs>>

\* line 156: the innermost activation returns its result; line 151: its
\* caller merges it into the child and moves on to the next one.
ReturnNode ==
    /\ hStack # <<>>
    /\ LET top == Len(hStack)
           f == hStack[top]
       IN /\ f.pc = "loop"
          /\ f.i > Len(f.result.children)
          /\ IF top = 1
             THEN /\ hStack' = <<>>
                  /\ hResult' = [hResult EXCEPT !.done = TRUE, !.ok = TRUE,
                                                !.node = f.result]
             ELSE LET g == hStack[top - 1]
                      child == ObjectAssign(g.result.children[g.i], f.result)
                  IN /\ hStack' = [SubSeq(hStack, 1, top - 1) EXCEPT
                                      ![top - 1].result.children[g.i] = child,
                                      ![top - 1].i = g.i + 1]
                     /\ UNCHANGED hResult
    /\ UNCHANGED <<hReads, hNodeId, hDepth, hArgs>>

NextHierarchy ==
    \/ GetNodeWithChildren /\ UNCHANGED <<cacheVars, searchVars, heapVars>>
    \/ ExpandChild /\ UNCHANGED <<cacheVars, searchVars, heapVars>>
    \/ ReturnNode /\ UNCHANGED <<cacheVars, searchVars, heapVars>>

\* A continuation that can run is run: each getAllNodes call of this
\* specification resolves, and the event loop then resumes the method.
SpecHierarchy ==
    InitHierarchy /\ [][NextHierarchy]_vars /\ WF_vars(NextHierarchy)

(***************************************************************************)
(* getNodeWithChildren when the outline changes while the tree is built:   *)
(* every activation calls getAllNodes itself (lines 131, 150), and the     *)
(* entry may expire or be cleared between two of these calls, so that a    *)
(* later call returns a newer export.                                      *)
(***************************************************************************)
\* The example tree after c was deleted upstream.
TreeWithoutC == SubSeq(ExampleTree, 1, 3)

\* The example tree after c was moved under b.
TreeCMoved == [ExampleTree EXCEPT ![4].parent_id = Some(3)]

\* The example tree after a was deleted upstream, c with it.
TreeWithoutA == <<ExampleTree[1], ExampleTree[3]>>

ReadSnapshots == {ExampleTree, TreeWithoutC, TreeCMoved, TreeWithoutA}

\* The first getAllNodes call of the request returns hReads[1], the later
\* ones hReads[2].
InitHierarchyReads ==
    /\ hReads \in {<<first, later>> : first, later \in ReadSnapshots}
    /\ hNodeId \in 1..4
    /\ hDepth \in 0..MaxDepth
    /\ hStack = <<Frame(hNodeId, hDepth)>>
    /\ hResult = HNotRun
    /\ hArgs = Unused
    /\ nodeCache = [data |-> Null, timestamp |-> None, ttl |-> 0]
    /\ clock = 1
    /\ req = [c \in Clients |-> Idle]
    /\ exportCalls = 0
    /\ writesStarted = 0
    /\ writesOK = 0
    /\ invalidations = 0
    /\ ev = NoEvent
    /\ afterWrite = FALSE
    /\ runFirst = "none"
    /\ origin = NoOrigin
    /\ toolExports = 0
    /\ sNodes = Unused /\ sQuery = Unused /\ sOptions = Unused
    /\ sResult = Unused
    /\ mem = Unused

SpecHierarchyReads == InitHierarchyReads /\ [][NextHierarchy]_vars

(***************************************************************************)
(* The workflowy_get_node_hierarchy tool (lines 590-601): the handler      *)
(* receives the arguments as the client sent them and calls                *)
(* getNodeWithChildren.                                                    *)
(***************************************************************************)
MaxArgDepth == 6        \* largest depth argument a request carries

\* depth?: number of the request's arguments
ArgDepths == {None} \cup {Some(d) : d \in 0..MaxArgDepth}

\* line 592: depth || 1
DepthOrOne(depth) == IF Truthy(depth) THEN depth[1] ELSE 1

InitTool ==
    /\ \/ /\ hReads = <<ExampleTree>>
          /\ hArgs \in [nodeId : 1..5, depth : ArgDepths, pc : {"received"}]
       \/ /\ hReads = <<SelfParent>>
          /\ hArgs \in [nodeId : {1}, depth : ArgDepths, pc : {"received"}]
    /\ hNodeId = 0
    /\ hDepth = 0
    /\ hStack = <<>>
    /\ hResult = HNotRun
    /\ nodeCache = [data |-> Null, timestamp |-> None, ttl |-> 0]
    /\ clock = 1
    /\ req = [c \in Clients |-> Idle]
    /\ exportCalls = 0
    /\ writesStarted = 0
    /\ writesOK = 0
    /\ invalidations = 0
    /\ ev = NoEvent
    /\ afterWrite = FALSE
    /\ runFirst = "none"
    /\ origin = NoOrigin
    /\ toolExports = 0
    /\ sNodes = Unused /\ sQuery = Unused /\ sOptions = Unused
    /\ sResult = Unused
    /\ mem = Unused

\* lines 590-592: the handler destructures the arguments and calls
\* getNodeWithChildren(nodeId, depth || 1).
CallToolHierarchy ==
    /\ hArgs.pc = "received"
    /\ hArgs' = [hArgs EXCEPT !.pc = "called"]
    /\ hNodeId' = hArgs.nodeId
    /\ hDepth' = DepthOrOne(hArgs.depth)
    /\ hStack' = <<Frame(hArgs.nodeId, DepthOrOne(hArgs.depth))>>
    /\ UNCHANGED <<hReads, hResult>>

NextTool ==
    \/ CallToolHierarchy /\ UNCHANGED <<cacheVars, searchVars, heapVars>>
    \/ GetNodeWithChildren /\ UNCHANGED <<cacheVars, searchVars, heapVars>>
    \/ ExpandChild /\ UNCHANGED <<cacheVars, searchVars, heapVars>>
    \/ ReturnNode /\ UNCHANGED <<cacheVars, searchVars, heapVars>>

SpecTool == InitTool /\ [][NextTool]_vars

(***************************************************************************)
(* Object identity.  The values above are compared by content; here every  *)
(* array and node is an object with an address, so that two references to  *)
(* one object can be told from two equal copies.  mem.heap[a] is the       *)
(* object at address a; a node object holds the address of its children    *)
(* array (0: it has no children property), an array object the addresses   *)
(* of its elements.  The entry is fresh throughout: getAllNodes takes the  *)
(* branch of lines 52-55.                                                  *)
(***************************************************************************)
MaxHeapCalls == 2       \* calls of the client's methods in one behaviour

NodeObject(node) ==
    [kind |-> "node", id |-> node.id, parent_id |-> node.parent_id,
     name |-> node.name, note |-> node.note, children |-> 0, elems |-> <<>>]

ArrayObject(elems) ==
    [kind |-> "array", id |-> 0, parent_id |-> None, name |-> <<>>,
     note |-> None, children |-> 0, elems |-> elems]

\* An object is created: it gets the next address.
New(heap, object) == [heap |-> Append(heap, object), ret |-> Len(heap) + 1]

\* lines 62-63, seen from line 54: the entry holds the array of the export
\* response, whose elements are the node objects of the response.
Load(snapshot) ==
    [i \in 1..(Len(snapshot) + 1) |->
        IF i <= Len(snapshot) THEN NodeObject(snapshot[i])
        ELSE ArrayObject([k \in 1..Len(snapshot) |-> k])]

\* line 54: return this.nodeCache.data
getAllNodes(m) == m.cache

\* Array.prototype.filter (lines 114, 144): a new array of the elements
\* kept; keep is the set of addresses the callback accepts.
filter(heap, array, keep) ==
    LET Keep(a) == a \in keep
    IN New(heap, ArrayObject(SelectSeq(heap[array].elems, Keep)))

\* Array.prototype.slice (line 126): a new array
slice(heap, array, end) ==
    New(heap, ArrayObject(Slice(heap[array].elems, end)))

\* lines 104-126 on objects
searchNodes(m, query, options) ==
    LET searchName == Default(options.searchName, TRUE)
        searchNote == Default(options.searchNote, TRUE)
        caseSensitive == Default(options.caseSensitive, FALSE)
        maxResults == Default(options.maxResults, DefaultMaxResults)
        allNodes == getAllNodes(m)
        searchQuery == IF caseSensitive THEN query ELSE ToLowerCase(query)
        keep == {a \in 1..Len(m.heap) :
                    NodeMatches(m.heap[a], searchQuery, searchName,
                                searchNote, caseSensitive)}
        results == filter(m.heap, allNodes, keep)
    IN slice(results.heap, results.ret, maxResults)

\* A copy that is the object itself.
spreadAliases(heap, a) == [heap |-> heap, ret |-> a]

\* lines 140, 145: { ...node }, a new object with the properties of the old
spread(heap, a) == New(heap, heap[a])

RECURSIVE mapSpread(_, _, _, _)
\* line 145: children.map((child) => ({ ...child })), from the i-th element
\* on; acc holds the addresses of the copies made so far.
mapSpread(heap, elems, i, acc) ==
    IF i > Len(elems)
    THEN New(heap, ArrayObject(acc))
    ELSE LET copy == spread(heap, elems[i])
         IN mapSpread(copy.heap, elems, i + 1, Append(acc, copy.ret))

\* line 151: Object.assign(target, source) writes the properties of the
\* source object into the target object.
objectAssign(heap, target, source) ==
    [heap EXCEPT ![target] =
        [@ EXCEPT !.id = heap[source].id,
                  !.parent_id = heap[source].parent_id,
                  !.name = heap[source].name,
                  !.note = IF heap[source].note = None THEN @
                           ELSE heap[source].note,
                  !.children = IF heap[source].children = 0 THEN @
                               ELSE heap[source].children]]

RECURSIVE getNodeWithChildren(_, _, _, _)
RECURSIVE expandChildren(_, _, _, _, _)

\* lines 149-152: the loop over result.children, from the i-th child on
expandChildren(heap, cache, children, i, depth) ==
    IF i > Len(heap[children].elems)
    THEN [ok |-> TRUE, heap |-> heap, ret |-> children]
    ELSE LET child == heap[children].elems[i]
             r == getNodeWithChildren(heap, cache, heap[child].id, depth - 1)
         IN IF ~r.ok
            THEN r
            ELSE expandChildren(objectAssign(r.heap, child, r.ret), cache,
                                children, i + 1, depth)

\* lines 130-157 on objects; ok is FALSE when the call throws.
getNodeWithChildren(heap, cache, nodeId, depth) ==
    LET allNodes == heap[cache].elems
        found == {i \in 1..Len(allNodes) : heap[allNodes[i]].id = nodeId}
    IN IF found = {}
       THEN [ok |-> FALSE, heap |-> heap, ret |-> 0]
       ELSE LET node == allNodes[CHOOSE i \in found : \A j \in found : j <= i]
                result == spread(heap, node)
                isChild == {a \in 1..Len(result.heap) :
                               result.heap[a].parent_id = Some(nodeId)}
                children == filter(result.heap, cache, isChild)
                copies == mapSpread(children.heap,
                                    children.heap[children.ret].elems, 1, <<>>)
                attached == [copies.heap EXCEPT
                                ![result.ret].children = copies.ret]
                expanded == IF ExpandsChildren(depth)
                            THEN expandChildren(attached, cache, copies.ret,
                                                1, depth)
                            ELSE [ok |-> TRUE, heap |-> attached,
                                  ret |-> copies.ret]
            IN IF ~AttachesChildren(depth)
               THEN [ok |-> TRUE, heap |-> result.heap, ret |-> result.ret]
               ELSE [ok |-> expanded.ok, heap |-> expanded.heap,
                     ret |-> IF expanded.ok THEN result.ret ELSE 0]

\* What a caller may do with a value it was handed: rename a node, or drop
\* the last element of an array.
Writes == {"rename", "pop"}

HeapSnapshots == {ExampleTree, SelfParent}

InitHeap ==
    /\ \E snapshot \in HeapSnapshots :
          mem = [heap |-> Load(snapshot), cache |-> Len(snapshot) + 1,
                 timestamp |-> 1, calls |-> 0, op |-> "none", ok |-> FALSE,
                 ret |-> 0]
    /\ nodeCache = [data |-> Null, timestamp |-> None, ttl |-> 0]
    /\ clock = 1
    /\ req = [c \in Clients |-> Idle]
    /\ exportCalls = 0
    /\ writesStarted = 0
    /\ writesOK = 0
    /\ invalidations = 0
    /\ ev = NoEvent
    /\ afterWrite = FALSE
    /\ runFirst = "none"
    /\ origin = NoOrigin
    /\ toolExports = 0
    /\ sNodes = Unused /\ sQuery = Unused /\ sOptions = Unused
    /\ sResult = Unused
    /\ hReads = Unused /\ hNodeId = Unused /\ hDepth = Unused
    /\ hStack = Unused /\ hResult = Unused /\ hArgs = Unused

\* A caller calls getAllNodes() and is handed what line 54 returns.
GetAllNodesReturns ==
    /\ mem.calls < MaxHeapCalls
    /\ mem' = [mem EXCEPT !.calls = @ + 1, !.op = "getAllNodes",
                          !.ok = TRUE, !.ret = getAllNodes(mem)]

\* A caller calls searchNodes(query, options) and is handed its result.
SearchNodesReturns(query, options) ==
    /\ mem.calls < MaxHeapCalls
    /\ LET r == searchNodes(mem, query, options)
       IN mem' = [mem EXCEPT !.calls = @ + 1, !.op = "searchNodes",
                             !.ok = TRUE, !.heap = r.heap, !.ret = r.ret]

\* A caller calls getNodeWithChildren(nodeId, depth), every getAllNodes call
\* of which is served by the entry, and is handed its result.
GetNodeWithChildrenReturns(nodeId, depth) ==
    /\ mem.calls < MaxHeapCalls
    /\ LET r == getNodeWithChildren(mem.heap, getAllNodes(mem), nodeId, depth)
       IN mem' = [mem EXCEPT !.calls = @ + 1, !.op = "getNodeWithChildren",
                             !.ok = r.ok, !.heap = r.heap, !.ret = r.ret]

\* The caller writes to the value it was handed: to the node, or to the
\* first node of the array (rename); to the array (pop).
CallerWrites(write) ==
    /\ mem.op \in {"getAllNodes", "searchNodes", "getNodeWithChildren"}
    /\ mem.ok
    /\ LET object == mem.heap[mem.ret]
           node == IF object.kind = "node" THEN mem.ret
                   ELSE IF object.elems # <<>> THEN object.elems[1] ELSE 0
       IN \/ /\ write = "rename"
             /\ node # 0
             /\ mem' = [mem EXCEPT !.op = "callerWrites",
                                   !.heap[node].name = <<"!">>]
          \/ /\ write = "pop"
             /\ object.kind = "array"
             /\ object.elems # <<>>
             /\ mem' = [mem EXCEPT
                           !.op = "callerWrites",
                           !.heap[mem.ret].elems =
                               SubSeq(@, 1, Len(@) - 1)]

NextHeap ==
    \/ GetAllNodesReturns /\ UNCHANGED <<cacheVars, searchVars, hierVars>>
    \/ \E query \in {rubric, <<"b">>}, max \in {None, Some(1)} :
          /\ SearchNodesReturns(query, [NoOptions EXCEPT !.maxResults = max])
          /\ UNCHANGED <<cacheVars, searchVars, hierVars>>
    \/ \E nodeId \in 1..5, depth \in 0..MaxDepth :
          /\ GetNodeWithChildrenReturns(nodeId, depth)
          /\ UNCHANGED <<cacheVars, searchVars, hierVars>>
    \/ \E write \in Writes :
          CallerWrites(write) /\ UNCHANGED <<cacheVars, searchVars, hierVars>>

SpecHeap == InitHeap /\ [][NextHeap]_vars

(***************************************************************************)
(* Claims about the cache entry, checked under Spec.                       *)
(***************************************************************************)
\* The entry is served as it stands: data present, age below the window.
Fresh == UseCache(nodeCache, CacheAge(nodeCache, clock), FALSE)

\* C1: in a run of unforced reads that are all issued while the entry is
\* fresh, with no mutation in between, no read calls /nodes-export and every
\* read after the first returns the data the first returned.
C1_ReadsInWindowIdentical ==
    [][(ev'.op = "GetAllNodes" /\ ~ev'.force /\ Fresh)
          => /\ exportCalls' = exportCalls
             /\ runFirst # "none" => ev'.data = runFirst]_vars

\* C2: the first read issued after a mutation operation has returned
\* successfully issues exactly one /nodes-export call.
C2_ReadAfterWriteFetchesOnce ==
    [][(ev'.op = "GetAllNodes" /\ afterWrite)
          => exportCalls' = exportCalls + 1]_vars

\* C3: when the export call is answered 429 and the entry holds a snapshot,
\* getAllNodes returns that snapshot's data and the step leaves the entry's
\* data and timestamp as they were (the timestamp is not refreshed).
C3_RateLimitedServesStale ==
    [][(ev'.op = "FetchRateLimited" /\ nodeCache.data # Null)
          => /\ ev'.kind = "ok"
             /\ ev'.data = nodeCache.data
             /\ nodeCache'.data = nodeCache.data
             /\ nodeCache'.timestamp = nodeCache.timestamp]_vars

\* A read was answered 429 while the entry held a snapshot that was already
\* past its window, and got the stale data.
C3_Witness ==
    /\ ev.op = "FetchRateLimited"
    /\ ev.kind = "ok"
    /\ ev.data = nodeCache.data
    /\ ev.data \in Snapshots
    /\ ~Fresh

\* C4: getAllNodes throws the rate-limited error exactly when the export
\* call is answered 429 and the entry is empty, and the error carries the
\* upstream retry hint, or 60 when the response has none.
C4_RateLimitedErrorCarriesHint ==
    /\ ev.kind = "rateLimited"
          <=> (ev.op = "FetchRateLimited" /\ nodeCache.data = Null)
    /\ ev.kind = "rateLimited"
          => ev.retryAfter = IF ev.hint = None THEN Some(60) ELSE ev.hint

\* C5: when the adapter call of a mutation operation fails, the failure
\* reaches the caller and the entry is left as it was: no invalidation.
C5_FailedMutationKeepsEntry ==
    [][(ev'.op = "MutationFail")
          => /\ ev'.kind = "error"
             /\ ev'.caller \in MutationKinds
             /\ nodeCache' = nodeCache
             /\ invalidations' = invalidations]_vars

\* A mutation failed while the entry held a snapshot, which is still there.
C5_Witness ==
    /\ ev.op = "MutationFail"
    /\ ev.hadData
    /\ nodeCache.data \in Snapshots
    /\ nodeCache.timestamp # None

\* C6: invalidateCache runs exactly once per successful write, in the step
\* in which the adapter call returns with success and in no other step, and
\* leaves the entry with neither data nor timestamp.
C6_InvalidateOncePerSuccessfulWrite ==
    [][/\ invalidations' - invalidations = writesOK' - writesOK
       /\ invalidations' # invalidations => ev'.op = "MutationOK"
       /\ ev'.op = "MutationOK"
             => /\ invalidations' = invalidations + 1
                /\ nodeCache'.data = Null
                /\ nodeCache'.timestamp = None]_vars

\* A mutation returned successfully while the entry held a snapshot.
C6_Witness ==
    /\ ev.op = "MutationOK"
    /\ ev.hadData
    /\ invalidations = 1
    /\ nodeCache.data = Null

(***************************************************************************)
(* Claims about searchNodes, checked under SpecSearch.                     *)
(***************************************************************************)
SearchName == Default(sOptions.searchName, TRUE)
SearchNote == Default(sOptions.searchNote, TRUE)
CaseSensitive == Default(sOptions.caseSensitive, FALSE)
MaxResults == Default(sOptions.maxResults, DefaultMaxResults)

\* The text compared under the configured case sensitivity.
Folded(str) == IF CaseSensitive THEN str ELSE ToLowerCase(str)

\* The query is a substring of the display text (when searchName) or of the
\* note text (when searchNote and the node has a note).
SubstringMatch(node) ==
    \/ SearchName /\ Includes(Folded(node.name), Folded(sQuery))
    \/ /\ SearchNote
       /\ node.note # None
       /\ Includes(Folded(node.note[1]), Folded(sQuery))

Returned(node) == \E k \in 1..Len(sResult.nodes) : sResult.nodes[k] = node

\* C7: when maxResults cuts nothing off, searchNodes returns a node of the
\* snapshot if and only if the query is a substring, under the configured
\* case sensitivity, of its display text (searchName) or of its note
\* (searchNote, note present); for every query and every display text, the
\* empty ones included.
C7_SearchMatchesSubstring ==
    (sResult.done /\ MaxResults >= Len(sNodes))
       => \A i \in 1..Len(sNodes) :
             Returned(sNodes[i]) <=> SubstringMatch(sNodes[i])

\* The positions of the snapshot whose node passes the filter of lines
\* 114-124.
MatchingPositions ==
    {i \in 1..Len(sNodes) :
        NodeMatches(sNodes[i], Folded(sQuery), SearchName, SearchNote,
                    CaseSensitive)}

\* The k-th matching position, counted in snapshot order.
KthMatch(k) ==
    CHOOSE i \in MatchingPositions :
        Cardinality({j \in MatchingPositions : j <= i}) = k

\* The first n matching nodes in snapshot order (none when n <= 0).
FirstMatching(n) ==
    LET have == Cardinality(MatchingPositions)
        len == IF n >= have THEN have ELSE IF n < 0 THEN 0 ELSE n
    IN [k \in 1..len |-> sNodes[KthMatch(k)]]

\* C8: the result of searchNodes is exactly the first maxResults matching
\* nodes in snapshot order (100 when maxResults is omitted), so it is never
\* longer than maxResults (than 0, for a negative maxResults).
C8_FirstMaxResultsInOrder ==
    sResult.done
       => /\ sResult.nodes = FirstMatching(MaxResults)
          /\ Len(sResult.nodes) <= (IF MaxResults < 0 THEN 0 ELSE MaxResults)

(***************************************************************************)
(* Claims about getNodeWithChildren, checked under SpecHierarchy, where    *)
(* every getAllNodes call of the request returns the same snapshot.        *)
(***************************************************************************)
Snapshot == hReads[1]

PositionOf(id) == CHOOSE i \in 1..Len(Snapshot) : Snapshot[i].id = id

RECURSIVE Materialized(_, _)
\* tree is a copy of the snapshot's node of that id; with depth > 0 its
\* children are exactly the nodes whose parent_id is that id, in snapshot
\* order, each materialized with depth - 1; with depth <= 0 it has no
\* children property.
Materialized(tree, depth) ==
    /\ \E i \in 1..Len(Snapshot) :
          /\ Snapshot[i].id = tree.id
          /\ Snapshot[i].parent_id = tree.parent_id
          /\ Snapshot[i].name = tree.name
          /\ Snapshot[i].note = tree.note
    /\ IF depth > 0
       THEN /\ tree.hasChildren
            /\ {tree.children[k].id : k \in 1..Len(tree.children)}
                  = {Snapshot[i].id : i \in {j \in 1..Len(Snapshot) :
                                    Snapshot[j].parent_id = Some(tree.id)}}
            /\ \A k, l \in 1..Len(tree.children) :
                  k < l => PositionOf(tree.children[k].id)
                              < PositionOf(tree.children[l].id)
            /\ \A k \in 1..Len(tree.children) :
                  Materialized(tree.children[k], depth - 1)
       ELSE /\ ~tree.hasChildren
            /\ tree.children = <<>>

ChildIds(tree) == [k \in 1..Len(tree.children) |-> tree.children[k].id]

\* C9: getNodeWithChildren(nodeId, depth) returns a copy of the node with,
\* for depth > 0, exactly its children in snapshot order, each expanded with
\* depth - 1, and no children property at remaining depth 0.  For
\* root -> {a, b}, a -> {c} and depth 2: root has [a, b], a has [c], b has
\* no child and c no children property.
C9_HierarchyMaterialized ==
    (hResult.done /\ hResult.ok)
       => /\ hResult.node.id = hNodeId
          /\ Materialized(hResult.node, hDepth)
          /\ (hReads = <<ExampleTree>> /\ hNodeId = 1 /\ hDepth = 2)
                => /\ ChildIds(hResult.node) = <<2, 3>>
                   /\ ChildIds(hResult.node.children[1]) = <<4>>
                   /\ ChildIds(hResult.node.children[2]) = <<>>
                   /\ ~hResult.node.children[1].children[1].hasChildren

\* The example of C9 has been materialized.
C9_Witness ==
    /\ hResult.done
    /\ hResult.ok
    /\ hReads = <<ExampleTree>>
    /\ hNodeId = 1
    /\ hDepth = 2
    /\ Len(hResult.node.children[1].children) = 1

RECURSIVE Height(_)
\* Levels of attached children below the root of the tree.
Height(tree) ==
    IF tree.children = <<>> THEN 0
    ELSE LET hs == {Height(tree.children[k]) : k \in 1..Len(tree.children)}
         IN 1 + CHOOSE h \in hs : \A g \in hs : g <= h

RECURSIVE Occurrences(_, _)
\* How many proper descendants of the tree have the given id.
Occurrences(tree, id) ==
    LET Sum[k \in 0..Len(tree.children)] ==
            IF k = 0 THEN 0
            ELSE Sum[k - 1]
                    + (IF tree.children[k].id = id THEN 1 ELSE 0)
                    + Occurrences(tree.children[k], id)
    IN Sum[Len(tree.children)]

SelfReferential(id) ==
    \E i \in 1..Len(Snapshot) :
        Snapshot[i].id = id /\ Snapshot[i].parent_id = Some(id)

AtLeastZero(n) == IF n < 0 THEN 0 ELSE n

\* The activations never nest deeper than depth (one, for depth < 1); what
\* a returned call has built is no deeper than depth, and a node that is its
\* own parent is nested below itself exactly depth times.
BoundedByDepth ==
    /\ Len(hStack) <= (IF hDepth < 1 THEN 1 ELSE hDepth)
    /\ hResult.done
          => /\ hStack = <<>>
             /\ Height(hResult.node) <= AtLeastZero(hDepth)
             /\ (hResult.ok /\ SelfReferential(hNodeId))
                   => Occurrences(hResult.node, hNodeId) = AtLeastZero(hDepth)

\* C10: getNodeWithChildren returns for every snapshot, cyclic ones
\* included; its recursion never nests deeper than depth, the result is
\* never deeper than depth, and a node that is its own parent, asked for
\* with depth d, is nested as its own descendant exactly d times.
C10_HierarchyBoundedByDepth == <>hResult.done /\ []BoundedByDepth

\* x, its own parent, has been expanded with the largest depth of the schema.
C10_Witness ==
    /\ hResult.done
    /\ hResult.ok
    /\ hReads = <<SelfParent>>
    /\ hDepth = SchemaMaxDepth
    /\ Occurrences(hResult.node, hNodeId) = SchemaMaxDepth
    /\ Height(hResult.node) = SchemaMaxDepth

\* C13: when the export call fails with anything but a 429, getAllNodes
\* throws that very failure, also when the entry holds a snapshot (no
\* stale data is served), and the entry is left as it was.
C13_OtherFailurePropagates ==
    [][(ev'.op = "FetchError")
          => /\ ev'.upstream \in Errors
             /\ ev'.kind = "error"
             /\ ev'.thrown = ev'.upstream
             /\ nodeCache' = nodeCache]_vars

\* The export call failed while the entry held a snapshot, which is still
\* there with its timestamp.
C13_Witness ==
    /\ ev.op = "FetchError"
    /\ ev.kind = "error"
    /\ ev.hadData
    /\ nodeCache.data \in Snapshots
    /\ nodeCache.timestamp # None

\* The entry holds no snapshot.
Empty == nodeCache.data = Null

\* The entry's age has reached the freshness window.
Expired ==
    /\ nodeCache.timestamp # None
    /\ clock - nodeCache.timestamp[1] >= nodeCache.ttl

\* C14: a getAllNodes call issues a /nodes-export call if and only if the
\* entry is empty, or its age has reached the freshness window (age equal to
\* the window included), or forceRefresh is true; otherwise it issues none.
C14_FetchesIffEmptyExpiredOrForced ==
    [][(ev'.op = "GetAllNodes")
          => /\ (exportCalls' = exportCalls + 1)
                   <=> (Empty \/ Expired \/ ev'.force)
             /\ exportCalls' \in {exportCalls, exportCalls + 1}]_vars

\* A forced read of a fresh entry has issued an export call.
C14_Witness ==
    /\ ev.op = "GetAllNodes"
    /\ ev.force
    /\ ev.kind = "pending"
    /\ Fresh
    /\ exportCalls >= 1

\* The getAllNodes calls suspended at the await of line 60.
InFlight == {c \in Clients : req[c].pc = "fetching"}

\* C15: refreshes of the entry are serialized: at most one /nodes-export
\* call issued by getAllNodes is in flight at any time, so a reader arriving
\* during a fetch does not start a fetch of its own.
C15_RefreshesSerialized == Cardinality(InFlight) <= 1

\* Data and timestamp are both absent or both present.
Paired(cache) == (cache.data = Null) <=> (cache.timestamp = None)

\* C16: in every state the entry's data and timestamp are both absent or
\* both present; the entry changes only when a fetch succeeds, which stores
\* the data it received together with the time it read when it started, or
\* when a mutation succeeds, which clears both.
C16_NoTearing ==
    [][/\ Paired(nodeCache)
       /\ Paired(nodeCache')
       /\ nodeCache' # nodeCache
             => \/ /\ ev'.op = "FetchOK"
                   /\ nodeCache'.data = ev'.data
                   /\ nodeCache'.timestamp = Some(req[ev'.c].now)
                \/ /\ ev'.op = "MutationOK"
                   /\ nodeCache'.data = Null
                   /\ nodeCache'.timestamp = None]_vars

\* A fetch completed over a snapshot stored by another fetch that overlapped
\* it, and the entry holds the pair of the one that completed last.
C16_Witness ==
    /\ ev.op = "FetchOK"
    /\ ev.hadData
    /\ exportCalls = 2
    /\ InFlight = {}
    /\ nodeCache.data = ev.data
    /\ nodeCache.timestamp # None

\* The request's nodeId is the id of a node of the snapshot.
Present == \E i \in 1..Len(Snapshot) : Snapshot[i].id = hNodeId

\* C11: getNodeWithChildren throws `Node ... not found` if and only if the
\* requested nodeId is absent from the snapshot; a node whose parent_id
\* names no node of the snapshot is looked up like any other.
C11_NotFoundIffAbsent ==
    hResult.done => (~hResult.ok <=> ~Present)

\* A node whose parent_id names no node of the snapshot, and that has a
\* child there, has been returned with its children expanded.
C11_Witness ==
    /\ hResult.done
    /\ hResult.ok
    /\ hDepth >= 2
    /\ hResult.node.parent_id = Some(Dangling)
    /\ hResult.node.children # <<>>

\* C17: one getNodeWithChildren call builds the whole tree it returns from
\* the snapshot it obtained first: the call succeeds exactly when its node
\* is in that snapshot, and every node and children list of the result is
\* that snapshot's, whatever a later getAllNodes call would return.
C17_TreeFromOneSnapshot ==
    hResult.done
       => /\ hResult.ok <=> Present
          /\ hResult.ok => Materialized(hResult.node, hDepth)

(***************************************************************************)
(* Claims about the workflowy_get_node_hierarchy tool, checked under       *)
(* SpecTool.                                                               *)
(***************************************************************************)
\* C12: a request whose depth is greater than 5 is rejected before the
\* outline is read: getNodeWithChildren is not called for it and no
\* getAllNodes call is made; and no result is deeper than 5 levels.
C12_DepthAboveFiveRejected ==
    /\ (hArgs.depth # None /\ hArgs.depth[1] > SchemaMaxDepth)
          => /\ hStack = <<>>
             /\ hResult.reads = 0
             /\ ~hResult.ok
    /\ hResult.done => Height(hResult.node) <= SchemaMaxDepth

\* The depth a request asks for: the argument, 1 when it is omitted.
RequestedDepth == IF hArgs.depth = None THEN 1 ELSE hArgs.depth[1]

\* C18: a request with depth 0 returns the node with no children attached;
\* with depth 1 the node and its direct children, none of them expanded; a
\* request without depth returns what depth 1 returns.
C18_DepthZeroAndOne ==
    (hResult.done /\ hResult.ok /\ RequestedDepth <= 1)
       => /\ hResult.node.id = hArgs.nodeId
          /\ Materialized(hResult.node, RequestedDepth)

(***************************************************************************)
(* Claims about object identity, checked under SpecHeap.                   *)
(***************************************************************************)
\* The objects of the entry: the array it holds and the nodes in it.
CacheObjects(m) ==
    {m.cache} \cup {m.heap[m.cache].elems[i] :
                       i \in 1..Len(m.heap[m.cache].elems)}

\* What a cached read returns, by content: the nodes of the entry's array.
CacheValue(m) ==
    [i \in 1..Len(m.heap[m.cache].elems) |-> m.heap[m.heap[m.cache].elems[i]]]

Views == {"searchNodes", "getNodeWithChildren"}

\* C19: a searchNodes or getNodeWithChildren call served by the entry
\* leaves the entry's array, every node object in it (none gains a
\* children property) and the timestamp as they were.
C19_ViewsLeaveSnapshot ==
    [][(mem'.op \in Views)
          => /\ mem'.cache = mem.cache
             /\ mem'.timestamp = mem.timestamp
             /\ \A a \in CacheObjects(mem) : mem'.heap[a] = mem.heap[a]
             /\ \A a \in CacheObjects(mem') :
                   mem'.heap[a].kind = "node" => mem'.heap[a].children = 0]_vars

\* getNodeWithChildren has returned a tree two levels deep, built by
\* Object.assign on the copies.
C19_Witness ==
    /\ mem.op = "getNodeWithChildren"
    /\ mem.ok
    /\ mem.heap[mem.ret].children # 0
    /\ \E i \in 1..Len(mem.heap[mem.heap[mem.ret].children].elems) :
          mem.heap[mem.heap[mem.heap[mem.ret].children].elems[i]].children # 0

RECURSIVE ReachFrom(_, _)
\* The objects reachable from the object at address a: the elements of an
\* array, the children array of a node.
ReachFrom(heap, a) ==
    {a} \cup UNION {ReachFrom(heap, heap[a].elems[i]) :
                      i \in 1..Len(heap[a].elems)}
        \cup (IF heap[a].children = 0 THEN {}
              ELSE ReachFrom(heap, heap[a].children))

Calls == {"getAllNodes", "searchNodes", "getNodeWithChildren"}

\* C20: what getAllNodes, searchNodes and getNodeWithChildren return shares
\* no object with the entry, neither the array nor a node, so that a write
\* of the caller to the returned value leaves what a cached read returns as
\* it was.
C20_ReturnedIsCopy ==
    [][/\ (mem'.op \in Calls /\ mem'.ok)
             => ReachFrom(mem'.heap, mem'.ret) \cap CacheObjects(mem') = {}
       /\ (mem'.op = "callerWrites")
             => CacheValue(mem') = CacheValue(mem)]_vars

(***************************************************************************)
(* Claims about overlapping requests, checked under Spec.                  *)
(***************************************************************************)
\* C22: as long as the entry is not invalidated its timestamp never
\* decreases: a fetch that started earlier does not replace the pair stored
\* by a fetch that started later.
C22_TimestampNeverDecreases ==
    [][(nodeCache.timestamp # None /\ nodeCache'.timestamp # None)
          => nodeCache'.timestamp[1] >= nodeCache.timestamp[1]]_vars

\* C21: a read issued after a mutation operation has returned is never
\* handed, from the entry, data of an export call that was issued before that
\* mutation returned: not on a cache hit and not as the stale fallback of a
\* rate-limited fetch.
C21_NoPreWriteDataAfterWrite ==
    [][/\ (ev'.op = "GetAllNodes" /\ ev'.kind = "ok")
             => origin.entry >= writesOK
       /\ (ev'.op = "FetchRateLimited" /\ ev'.kind = "ok")
             => origin.entry >= origin.call[ev'.c].writes]_vars

\* C24: the first read issued after a mutation operation has returned, when
\* its export call is answered 429, throws the rate-limited error: it is
\* never served from the entry.
C24_NoFallbackAfterWrite ==
    [][(ev'.op = "FetchRateLimited" /\ origin.call[ev'.c].first)
          => /\ ev'.kind = "rateLimited"
             /\ ev'.data = Null]_vars

ExportSteps == {"ExportNodes", "ExportOK", "ExportFail"}

\* C25: every exportNodes call issues a /nodes-export call of its own,
\* whether the entry is empty, fresh or expired; no step of exportNodes
\* changes the entry or invalidates it; and a failure of its call, a 429
\* included, comes back as an error carrying no data, also when the entry
\* holds a snapshot.
C25_ExportBypassesCache ==
    [][/\ ev'.op = "ExportNodes"
             => /\ toolExports' = toolExports + 1
                /\ ev'.kind = "pending"
       /\ ev'.op \in ExportSteps
             => /\ nodeCache' = nodeCache
                /\ invalidations' = invalidations
                /\ exportCalls' = exportCalls
       /\ ev'.op = "ExportOK" => ev'.kind = "ok"
       /\ ev'.op = "ExportFail"
             => /\ ev'.kind = "error"
                /\ ev'.data = Null
                /\ ev'.thrown = ev'.upstream]_vars

\* An exportNodes call was answered 429 while the entry held a fresh
\* snapshot: the caller got the error, and the entry is as it was.
C25_Witness ==
    /\ ev.op = "ExportFail"
    /\ ev.upstream = "status429"
    /\ ev.kind = "error"
    /\ ev.hadData
    /\ toolExports = 1
    /\ Fresh
    /\ nodeCache.data \in Snapshots

=============================================================================
